---- MODULE Spec2Model ----
(***************************************************************************)
(* BioGate (src/main.py): a state-machine model of BioGateController and   *)
(* the components it coordinates.  One action per menu command; each       *)
(* action is the whole handler, including the saves it performs.           *)
(*                                                                         *)
(* Representation.                                                         *)
(*  - Python strings that the code inspects (ids) are sequences of         *)
(*    one-character strings, so strip/len/startswith/isdigit are computed. *)
(*  - Floats in [0,1] that are compared with one another (match score,     *)
(*    threshold, rates, random.random()) are integers in units of 1/10000. *)
(*  - Template components are the integers 0 and 1 (0.0 and 1.0).          *)
(*  - Timestamps (log 'time', 'enrollment_date') are left out.             *)
(***************************************************************************)
EXTENDS Integers, Sequences, FiniteSets, TLC

VARIABLES
    users,                  \* BioGateController.users : id -> user dict
    devices,                \* BioGateController.devices : id -> device dict
    logs,                   \* SecurityLogger.logs
    stats,                  \* StatisticsManager.stats (a defaultdict(int))
    biometric_threshold,    \* AuthenticationEngine.biometric_threshold
    auth_success_rate,      \* AuthenticationEngine.auth_success_rate
    attack_detection_rate,  \* AttackSimulator.attack_detection_rate
    disk,                   \* data/users.json, devices.json, stats.json, logs.json
    call,                   \* the command that has just returned: its arguments,
                            \* its draws and its return value (NoCall at the menu)
    pre,                    \* users, devices, logs, stats, disk when it began
    commands                \* the number of commands run in this session

vars == <<users, devices, logs, stats, biometric_threshold, auth_success_rate,
          attack_detection_rate, disk, call, pre, commands>>

-----------------------------------------------------------------------------
(* Bounds of the model *)

MaxCommands == 2        \* commands run in one session
MaxIdDraws == 1         \* distinct values the random draw of an id may take
MaxLogLen == 3          \* entries of a log that is queried (LogSpec)
MaxPage == 4            \* greatest page number asked for (LogSpec)
MaxPerPage == 2         \* greatest per_page asked for (LogSpec)
MaxVecLen == 3          \* greatest length of a vector that is compared (MatchSpec)

-----------------------------------------------------------------------------
(* Program constants *)

RandIntLo == 1000       \* random.randint(1000, 9999)
UserIdLen == 6          \* random.choices(..., k=6)
TemplateLen == 10       \* generate_biometric: 10 values
ScoreScale == 10000     \* round(similarity, 4): scores are multiples of 1/10000
DefaultThreshold == 6000         \* biometric_threshold=0.6
DefaultAuthRate == 8000          \* auth_success_rate=0.8
DefaultDetectionRate == 7000     \* attack_detection_rate=0.7
DefaultPage == 1                 \* show_logs(page=1, ...)
DefaultPerPage == 10             \* show_logs(..., per_page=10, ...)

-----------------------------------------------------------------------------
(* Strings *)

DigitChars == <<"0", "1", "2", "3", "4", "5", "6", "7", "8", "9">>
UpperChars == <<"A", "B", "C", "D", "E", "F", "G", "H", "I", "J", "K", "L", "M",
                "N", "O", "P", "Q", "R", "S", "T", "U", "V", "W", "X", "Y", "Z">>
LowerChars == <<"a", "b", "c", "d", "e", "f", "g", "h", "i", "j", "k", "l", "m",
                "n", "o", "p", "q", "r", "s", "t", "u", "v", "w", "x", "y", "z">>
Whitespace == {" "}

Range(s) == {s[i] : i \in DOMAIN s}

\* str.isdigit / str.isalnum: every character qualifies and there is at least one
isdigit(s) == s # <<>> /\ \A i \in DOMAIN s : s[i] \in Range(DigitChars)
isalnum(s) ==
    /\ s # <<>>
    /\ \A i \in DOMAIN s :
           s[i] \in Range(DigitChars) \cup Range(UpperChars) \cup Range(LowerChars)

\* str.startswith
startswith(s, p) == Len(s) >= Len(p) /\ SubSeq(s, 1, Len(p)) = p

\* str.upper / str.lower, one character and a whole string
UpperChar(c) ==
    IF \E i \in DOMAIN LowerChars : LowerChars[i] = c
    THEN UpperChars[CHOOSE i \in DOMAIN LowerChars : LowerChars[i] = c]
    ELSE c
upper(s) == [i \in DOMAIN s |-> UpperChar(s[i])]

RECURSIVE lstrip(_)
lstrip(s) == IF s # <<>> /\ Head(s) \in Whitespace THEN lstrip(Tail(s)) ELSE s
RECURSIVE rstrip(_)
rstrip(s) ==
    IF s # <<>> /\ s[Len(s)] \in Whitespace THEN rstrip(SubSeq(s, 1, Len(s) - 1)) ELSE s
strip(s) == rstrip(lstrip(s))

\* str(n) for a non-negative integer
RECURSIVE IntToStr(_)
IntToStr(n) ==
    IF n < 10 THEN <<DigitChars[n + 1]>>
    ELSE IntToStr(n \div 10) \o <<DigitChars[(n % 10) + 1]>>

DEV == <<"D", "E", "V">>
SYSTEM == <<"S", "Y", "S", "T", "E", "M">>
ATTACKER == <<"A", "T", "T", "A", "C", "K", "E", "R">>

-----------------------------------------------------------------------------
(* Dictionaries *)

EmptyDict == [k \in {} |-> 0]
DictSet(d, k, v) == [x \in (DOMAIN d) \cup {k} |-> IF x = k THEN v ELSE d[x]]

-----------------------------------------------------------------------------
(* BiometricGenerator *)

\* string.ascii_uppercase + string.digits
IdAlphabet == UpperChars \o DigitChars

\* The values ''.join(random.choices(IdAlphabet, k=6)) draws in this model: the
\* first MaxIdDraws codes "AAAAAA", "AAAAAB", ...
UserIdDraws ==
    {[i \in 1..UserIdLen |-> IF i < UserIdLen THEN "A" ELSE IdAlphabet[k]] :
        k \in 1..MaxIdDraws}

\* The values f"DEV{random.randint(1000, 9999)}" draws in this model: the first
\* MaxIdDraws ids "DEV1000", "DEV1001", ...
DeviceIdDraws == {DEV \o IntToStr(RandIntLo + k) : k \in 0..(MaxIdDraws - 1)}

\* str(uuid.uuid4()): its first eight characters are random lower-case hex digits
UuidDraws == {<<"1", "0", "0", "0", "a", "1", "b", "2">>,
              <<"a", "1", "b", "2", "0", "0", "0", "0">>}

\* generate_user_id: the set of values the call can return.  A draw outside
\* existing_ids is returned at once; the loop runs out only when each of its
\* 1000 draws is in existing_ids, and then the truncated uuid is returned
\* without a membership test.
generate_user_id(existing_ids) ==
    {u \in UserIdDraws : u \notin existing_ids}
    \cup (IF \E u \in UserIdDraws : u \in existing_ids
          THEN {upper(SubSeq(x, 1, 8)) : x \in UuidDraws}
          ELSE {})

\* generate_device_id: the set of values the call can return (same loop).
generate_device_id(existing_ids) ==
    {d \in DeviceIdDraws : d \notin existing_ids}
    \cup (IF \E d \in DeviceIdDraws : d \in existing_ids
          THEN {DEV \o upper(SubSeq(x, 1, 4)) : x \in UuidDraws}
          ELSE {})

\* A template with k components 1.0 followed by components 0.0
Template(k) == [i \in 1..TemplateLen |-> IF i <= k THEN 1 ELSE 0]

\* generate_biometric: the templates [round(random.random(), 6) ...] draws here
TemplateDraws == {Template(TemplateLen \div 2), Template(TemplateLen)}

\* hash_biometric: sha256 of str(bio_data), taken to be collision free
hash_biometric(bio_data) == <<"sha256", bio_data>>

RECURSIVE SumSquares(_, _)
SumSquares(bio1, bio2) ==
    IF bio1 = <<>> \/ bio2 = <<>> THEN 0
    ELSE (Head(bio1) - Head(bio2)) * (Head(bio1) - Head(bio2))
         + SumSquares(Tail(bio1), Tail(bio2))

\* The least r in lo..hi with f < (2r+1)^2: r = round(sqrt(f / 4))
RECURSIVE RoundHalfSqrt(_, _, _)
RoundHalfSqrt(f, lo, hi) ==
    IF lo >= hi THEN lo
    ELSE LET mid == (lo + hi) \div 2 IN
         IF f < (2 * mid + 1) * (2 * mid + 1)
         THEN RoundHalfSqrt(f, lo, mid)
         ELSE RoundHalfSqrt(f, mid + 1, hi)

\* the value standing for the exception the division raises
ZeroDivisionError == 0 - 1

\* calculate_biometric_match, in units of 1/ScoreScale.  With h the sum of
\* squares and n the length, distance / max_distance = sqrt(h / n), so the
\* score is ScoreScale - round(ScoreScale * sqrt(h / n)), floored at 0.
\* For n = 0 the division 0.0 / 0.0 raises.
calculate_biometric_match(bio1, bio2) ==
    IF Len(bio1) # Len(bio2) THEN 0
    ELSE IF Len(bio1) = 0 THEN ZeroDivisionError
    ELSE LET n == Len(bio1)
             h == SumSquares(bio1, bio2)
             k == 4 * ScoreScale * ScoreScale
             \* floor(k * h / n), computed without leaving 32 bits
             f == (k \div n) * h + ((k % n) * h) \div n
             r == IF h >= n THEN ScoreScale ELSE RoundHalfSqrt(f, 0, ScoreScale)
         IN  IF ScoreScale - r < 0 THEN 0 ELSE ScoreScale - r

-----------------------------------------------------------------------------
(* InputValidator *)

validate_user_id(user_id) ==
    IF user_id = <<>> THEN <<FALSE, "User ID cannot be empty">>
    ELSE IF Len(strip(user_id)) # 6 THEN <<FALSE, "User ID must be 6 characters">>
    ELSE IF ~isalnum(strip(user_id)) THEN <<FALSE, "User ID must be alphanumeric">>
    ELSE <<TRUE, "Valid">>

validate_device_id(device_id) ==
    IF device_id = <<>> THEN <<FALSE, "Device ID cannot be empty">>
    ELSE IF ~startswith(strip(device_id), DEV)
         THEN <<FALSE, "Device ID must start with 'DEV'">>
    ELSE IF Len(strip(device_id)) # 7
         THEN <<FALSE, "Device ID must be 7 characters (DEV + 4 digits)">>
    ELSE IF ~isdigit(SubSeq(strip(device_id), 4, Len(strip(device_id))))
         THEN <<FALSE, "Device ID must have 4 digits after 'DEV'">>
    ELSE <<TRUE, "Valid">>

\* validate_rate.  The typed text is either a number (in units of 1/ScoreScale)
\* or not one; float() raises ValueError for the latter.
validate_rate(rate) ==
    IF ~rate.numeric THEN <<FALSE, "Please enter a valid number">>
    ELSE IF 0 <= rate.value /\ rate.value <= ScoreScale THEN <<TRUE, rate.value>>
    ELSE <<FALSE, "must be between 0.0 and 1.0">>

-----------------------------------------------------------------------------
(* The controller's data, passed as one record st:                         *)
(*   users, devices, logs, stats, disk                                     *)

NoFile == [exists |-> FALSE, data |-> EmptyDict]
File(data) == [exists |-> TRUE, data |-> data]

\* A variant of log_event that puts the new entry in front
log_event_prepending(st, user_id, device_id, result, notes) ==
    LET entry == [user |-> user_id, device |-> device_id,
                  result |-> result, notes |-> notes]
        prepended == <<entry>> \o st.logs
    IN  [st EXCEPT !.logs = prepended, !.disk.logs = File(prepended)]

\* SecurityLogger.log_event: append the entry, then save_logs
log_event(st, user_id, device_id, result, notes) ==
    LET entry == [user |-> user_id, device |-> device_id,
                  result |-> result, notes |-> notes]
        appended == Append(st.logs, entry)
    IN  [st EXCEPT !.logs = appended, !.disk.logs = File(appended)]

\* An optional argument: None, or a value (a string, possibly the empty one).
\* None is written for an id argument, NoneResult for a result argument.
None == [given |-> FALSE, value |-> <<>>]
NoneResult == [given |-> FALSE, value |-> ""]
Some(value) == [given |-> TRUE, value |-> value]

\* "if filter_user:" -- the argument is neither None nor an empty string
FilterSet(filter, empty) == filter.given /\ filter.value # empty

\* A variant of get_filtered_logs that does not apply the device filter
get_filtered_logs_ignoring_device(log_list, filter_user, filter_device, filter_result) ==
    LET by_user == IF FilterSet(filter_user, <<>>)
                   THEN SelectSeq(log_list, LAMBDA log : log.user = filter_user.value)
                   ELSE log_list
    IN  IF FilterSet(filter_result, "")
        THEN SelectSeq(by_user, LAMBDA log : log.result = filter_result.value)
        ELSE by_user

\* SecurityLogger.get_filtered_logs over the log list log_list
get_filtered_logs(log_list, filter_user, filter_device, filter_result) ==
    LET by_user == IF FilterSet(filter_user, <<>>)
                   THEN SelectSeq(log_list, LAMBDA log : log.user = filter_user.value)
                   ELSE log_list
        by_device == IF FilterSet(filter_device, <<>>)
                     THEN SelectSeq(by_user, LAMBDA log : log.device = filter_device.value)
                     ELSE by_user
    IN  IF FilterSet(filter_result, "")
        THEN SelectSeq(by_device, LAMBDA log : log.result = filter_result.value)
        ELSE by_device

\* StatisticsManager.get_stat
get_stat(stat, stat_name) == IF stat_name \in DOMAIN stat THEN stat[stat_name] ELSE 0

\* A variant of increment_stat that counts twice
increment_stat_twice(st, stat_name) ==
    [st EXCEPT !.stats = DictSet(st.stats, stat_name, get_stat(st.stats, stat_name) + 2)]

\* StatisticsManager.increment_stat on the defaultdict(int)
increment_stat(st, stat_name) ==
    [st EXCEPT !.stats = DictSet(st.stats, stat_name, get_stat(st.stats, stat_name) + 1)]

\* BioGateController.save_system_data
save_system_data(st) ==
    [st EXCEPT !.disk.users = File(st.users),
               !.disk.devices = File(st.devices),
               !.disk.stats = File(st.stats)]

\* The notes of a log entry: its text, the device name it mentions (or <<>>) and
\* the match percentage it embeds (or <<>>)
Notes(text, name, match) == [text |-> text, name |-> name, match |-> match]

\* f"{match_score:.2%}": the percentage with two decimals, as <<whole, hundredths>>
FormatPercent(match_score) == <<match_score \div 100, match_score % 100>>

-----------------------------------------------------------------------------
(* AuthenticationEngine and AttackSimulator *)

\* The attributes of a dict object: its methods, never its keys
DictAttributes == {"get", "items", "keys", "values", "update", "pop", "setdefault"}

\* hasattr(user, name) where user is a value of the users map, a dict
\* (enroll_user stores user.to_dict(), load_users returns parsed JSON)
hasattr(user, name) == name \in DictAttributes

\* bool(list)
Truthy(list) == list # <<>>

\* AuthenticationEngine.authenticate_user -> <<success, match_score>>.
\* auth_bio is the template generate_biometric() returns, draw the value of
\* random.random().
engine_authenticate_user(user, device, is_attack, auth_bio, draw) ==
    IF hasattr(user, "original_biometric") /\ Truthy(user.original_biometric)
    THEN LET match_score == calculate_biometric_match(user.original_biometric, auth_bio)
         IN  <<match_score >= biometric_threshold /\ draw < auth_success_rate, match_score>>
    ELSE <<~is_attack /\ draw < auth_success_rate, 0>>

attack_types == {"Unauthorized Access", "Firmware Tampering", "Network Intrusion"}

\* AttackSimulator.simulate_attack -> <<detected, attack, message>>
simulate_attack(device_name, attack, draw) ==
    IF draw < attack_detection_rate
    THEN <<TRUE, attack, [kind |-> "BLOCKED", text |-> attack, match |-> <<>>]>>
    ELSE <<FALSE, attack, [kind |-> "ALERT", text |-> attack, match |-> <<>>]>>

-----------------------------------------------------------------------------
(* BioGateController.authenticate_user *)

Ret(kind, text, match) == [kind |-> kind, text |-> text, match |-> match]

NoAttack == [ran |-> FALSE, detected |-> FALSE, attack |-> ""]
NoEngine == [ran |-> FALSE, device_status |-> "", auth_bio |-> <<>>, draw |-> 0,
             success |-> FALSE, match_score |-> 0]

\* What one call did: the data it leaves, the value it returns, and what its
\* calls of the attack simulator and of the authentication engine returned
Outcome(st, ret, attack, engine) ==
    [st |-> st, ret |-> ret, attack |-> attack, engine |-> engine]

\* A variant of reject_malformed_id that counts the attempt as a failed authentication
reject_malformed_id_counted(st) ==
    save_system_data(increment_stat(st, "failed_authentications"))

\* "return f'FAILED: {user_msg}'" and "return f'FAILED: {device_msg}'": the
\* early returns on a malformed id touch nothing
reject_malformed_id(st) == st

\* A variant of user_not_found in which the device's attack marker has already
\* been cleared when the user is looked up
user_not_found_after_reset(st, user_id, device_id) ==
    LET reset == IF device_id \in DOMAIN st.devices
                 THEN [st EXCEPT !.devices[device_id].status = "Active"]
                 ELSE st
    IN  save_system_data(
            increment_stat(
                log_event(reset, user_id, device_id, "Failed",
                          Notes("User not found", <<>>, <<>>)),
                "failed_authentications"))

\* user_id not in self.users
user_not_found(st, user_id, device_id) ==
    save_system_data(
        increment_stat(
            log_event(st, user_id, device_id, "Failed",
                      Notes("User not found", <<>>, <<>>)),
            "failed_authentications"))

\* A variant of device_not_found that logs the failure without counting it
device_not_found_uncounted(st, user_id, device_id) ==
    save_system_data(
        log_event(st, user_id, device_id, "Failed",
                  Notes("Device not found", <<>>, <<>>)))

\* device_id not in self.devices
device_not_found(st, user_id, device_id) ==
    save_system_data(
        increment_stat(
            log_event(st, user_id, device_id, "Failed",
                      Notes("Device not found", <<>>, <<>>)),
            "failed_authentications"))

\* "Reset device status if it was under attack"
reset_under_attack(st, device_id) ==
    IF st.devices[device_id].status = "Under Attack"
    THEN [st EXCEPT !.devices[device_id].status = "Active"]
    ELSE st

\* A variant of attack_blocked that counts the attack as succeeded
attack_blocked_miscounted(st, user_id, device_id) ==
    save_system_data(
        increment_stat(
            log_event(st, user_id, device_id, "Blocked",
                      Notes("Attack detected", <<>>, <<>>)),
            "attacks_succeeded"))

\* A variant of attack_blocked that marks the device before it returns
attack_blocked_marking(st, user_id, device_id) ==
    save_system_data(
        increment_stat(
            log_event([st EXCEPT !.devices[device_id].status = "Under Attack"],
                      user_id, device_id, "Blocked",
                      Notes("Attack detected", <<>>, <<>>)),
            "attacks_blocked"))

\* is_attack, detected
attack_blocked(st, user_id, device_id) ==
    save_system_data(
        increment_stat(
            log_event(st, user_id, device_id, "Blocked",
                      Notes("Attack detected", <<>>, <<>>)),
            "attacks_blocked"))

\* A variant of attack_succeeded that logs the entry under the calling user
attack_succeeded_as_caller(st, user_id, device_id, attack_type) ==
    LET counted == increment_stat(st, "attacks_succeeded")
        marked == [counted EXCEPT !.devices[device_id].status = "Under Attack"]
    IN  save_system_data(
            log_event(marked, user_id, device_id, "Attack",
                      Notes(attack_type, marked.devices[device_id].name, <<>>)))

\* is_attack, not detected; the entry is logged under 'SYSTEM', not under user_id
attack_succeeded(st, user_id, device_id, attack_type) ==
    LET counted == increment_stat(st, "attacks_succeeded")
        marked == [counted EXCEPT !.devices[device_id].status = "Under Attack"]
    IN  save_system_data(
            log_event(marked, SYSTEM, device_id, "Attack",
                      Notes(attack_type, marked.devices[device_id].name, <<>>)))

\* the engine accepted
auth_succeeded(st, user_id, device_id, match_score) ==
    LET active == [st EXCEPT !.devices[device_id].status = "Active"]
    IN  save_system_data(
            increment_stat(
                log_event(active, user_id, device_id, "Success",
                          Notes("Authentication successful", <<>>,
                                FormatPercent(match_score))),
                "successful_authentications"))

\* the engine rejected
auth_failed(st, user_id, device_id, match_score) ==
    save_system_data(
        increment_stat(
            log_event(st, user_id, device_id, "Failed",
                      Notes("Biometric mismatch", <<>>, FormatPercent(match_score))),
            "failed_authentications"))

\* rnd holds the values the call draws: attack (random.choice), detect_draw
\* (random.random in simulate_attack), auth_bio (generate_biometric) and
\* auth_draw (random.random in the engine)
authenticate_user(st, user_id, device_id, is_attack, rnd) ==
    IF ~validate_user_id(user_id)[1]
    THEN Outcome(reject_malformed_id(st),
                 Ret("FAILED", validate_user_id(user_id)[2], <<>>), NoAttack, NoEngine)
    ELSE IF ~validate_device_id(device_id)[1]
    THEN Outcome(reject_malformed_id(st),
                 Ret("FAILED", validate_device_id(device_id)[2], <<>>), NoAttack, NoEngine)
    ELSE IF user_id \notin DOMAIN st.users
    THEN Outcome(user_not_found(st, user_id, device_id),
                 Ret("FAILED", "User not found", <<>>), NoAttack, NoEngine)
    ELSE IF device_id \notin DOMAIN st.devices
    THEN Outcome(device_not_found(st, user_id, device_id),
                 Ret("FAILED", "Device not found", <<>>), NoAttack, NoEngine)
    ELSE
    LET st1 == reset_under_attack(st, device_id) IN
    IF is_attack
    THEN LET sim == simulate_attack(st1.devices[device_id].name, rnd.attack,
                                    rnd.detect_draw)
             ran == [ran |-> TRUE, detected |-> sim[1], attack |-> sim[2]]
         IN  IF sim[1]
             THEN Outcome(attack_blocked(st1, user_id, device_id), sim[3], ran, NoEngine)
             ELSE Outcome(attack_succeeded(st1, user_id, device_id, sim[2]), sim[3], ran,
                          NoEngine)
    ELSE LET user_data == st1.users[user_id]
             res == engine_authenticate_user(user_data, st1.devices[device_id],
                                             is_attack, rnd.auth_bio, rnd.auth_draw)
             eng == [ran |-> TRUE, device_status |-> st1.devices[device_id].status,
                     auth_bio |-> rnd.auth_bio, draw |-> rnd.auth_draw,
                     success |-> res[1], match_score |-> res[2]]
         IN  IF res[1]
             THEN Outcome(auth_succeeded(st1, user_id, device_id, res[2]),
                          Ret("SUCCESS", "authenticated", FormatPercent(res[2])),
                          NoAttack, eng)
             ELSE Outcome(auth_failed(st1, user_id, device_id, res[2]),
                          Ret("FAILED", "Biometric mismatch", FormatPercent(res[2])),
                          NoAttack, eng)

-----------------------------------------------------------------------------
(* BioGateController.enroll_user *)

valid_biometric_types == {"Face", "Voice"}

\* f'enrollments_{bio_type.lower()}'
enrollment_stat(bio_type) ==
    CASE bio_type = "Face" -> "enrollments_face"
      [] bio_type = "Voice" -> "enrollments_voice"

\* BiometricDevice(device_id, f'IoT Device {device_id}', 'Active').to_dict()
device_dict(device_id) == [name |-> <<"IoT Device ">> \o device_id, status |-> "Active"]

\* BiometricUser(...).to_dict() after set_original_biometric(bio_data)
user_dict(name, bio_type, bio_data) ==
    [name |-> name, bio_type |-> bio_type, bio_hash |-> hash_biometric(bio_data),
     access_attempts |-> 0, original_biometric |-> bio_data]

\* A variant of enroll_user that leaves the per-modality counter alone
enroll_user_modality_uncounted(st, name, bio_type, user_id, device_id, bio_data) ==
    LET with_device == [st EXCEPT !.devices = DictSet(@, device_id, device_dict(device_id))]
        with_user == [with_device EXCEPT
                        !.users = DictSet(@, user_id, user_dict(name, bio_type, bio_data))]
        counted == increment_stat(with_user, "total_enrollments")
    IN  save_system_data(
            log_event(counted, user_id, device_id, "Enrolled",
                      Notes("User enrolled with", <<bio_type>>, <<>>)))

\* user_id, device_id and bio_data are the values the generator calls return
enroll_user(st, name, bio_type, user_id, device_id, bio_data) ==
    LET with_device == [st EXCEPT !.devices = DictSet(@, device_id, device_dict(device_id))]
        with_user == [with_device EXCEPT
                        !.users = DictSet(@, user_id, user_dict(name, bio_type, bio_data))]
        counted == increment_stat(increment_stat(with_user, "total_enrollments"),
                                  enrollment_stat(bio_type))
    IN  save_system_data(
            log_event(counted, user_id, device_id, "Enrolled",
                      Notes("User enrolled with", <<bio_type>>, <<>>)))

-----------------------------------------------------------------------------
(* The other commands of the menu *)

\* BioGateController.simulate_attack_menu; typed is the text entered at the prompt
simulate_attack_menu(st, typed, rnd) ==
    IF DOMAIN st.devices = {}
    THEN [invoked |-> FALSE,
          out |-> Outcome(st, Ret("ERROR", "No devices available to attack", <<>>),
                          NoAttack, NoEngine)]
    ELSE IF strip(typed) \notin DOMAIN st.devices
    THEN [invoked |-> FALSE,
          out |-> Outcome(st, Ret("ERROR", "Device not found", <<>>), NoAttack, NoEngine)]
    ELSE [invoked |-> TRUE,
          out |-> authenticate_user(st, ATTACKER, strip(typed), TRUE, rnd)]

\* DataManager.clear_all_data_files: users.json and devices.json are removed
clear_all_data_files(st) == [st EXCEPT !.disk.users = NoFile, !.disk.devices = NoFile]

\* A variant of clear_all_data that leaves the statistics in memory
clear_all_data_keeping_stats(st, confirm) ==
    IF confirm # "DELETE" THEN st
    ELSE LET cleared == [st EXCEPT !.users = EmptyDict, !.devices = EmptyDict,
                                   !.logs = <<>>]
             saved == save_system_data(clear_all_data_files(cleared))
         IN  [saved EXCEPT !.disk.logs = File(saved.logs)]

\* BioGateController.clear_all_data; confirm is the stripped text entered
clear_all_data(st, confirm) ==
    IF confirm # "DELETE" THEN st
    ELSE LET cleared == [st EXCEPT !.users = EmptyDict, !.devices = EmptyDict,
                                   !.logs = <<>>, !.stats = EmptyDict]
             saved == save_system_data(clear_all_data_files(cleared))
         IN  [saved EXCEPT !.disk.logs = File(saved.logs)]

\* BioGateController.reset_device_statuses
reset_device_statuses(st) ==
    LET reset == [st EXCEPT !.devices =
                    [d \in DOMAIN st.devices |-> [st.devices[d] EXCEPT !.status = "Active"]]]
        devices_reset == Cardinality({d \in DOMAIN st.devices :
                                        st.devices[d].status # "Active"})
    IN  IF devices_reset > 0 THEN save_system_data(reset) ELSE reset

\* The three rates, as one record
Settings == [biometric_threshold |-> biometric_threshold,
             auth_success_rate |-> auth_success_rate,
             attack_detection_rate |-> attack_detection_rate]

\* AuthenticationEngine.update_threshold
update_threshold(cfg, new_threshold) == [cfg EXCEPT !.biometric_threshold = new_threshold]

\* AuthenticationEngine.update_auth_rate
update_auth_rate(cfg, new_rate) == [cfg EXCEPT !.auth_success_rate = new_rate]

\* AttackSimulator.update_detection_rate
update_detection_rate(cfg, new_rate) == [cfg EXCEPT !.attack_detection_rate = new_rate]

\* BioGateController.configure_settings; choice and rate are the texts entered.
\* The result is the data and the settings the command leaves.
configure_settings(st, cfg, choice, rate) ==
    CASE choice = "1" ->
           [st |-> st,
            cfg |-> IF validate_rate(rate)[1]
                    THEN update_auth_rate(cfg, validate_rate(rate)[2])
                    ELSE cfg]
      [] choice = "2" ->
           [st |-> st,
            cfg |-> IF validate_rate(rate)[1]
                    THEN update_detection_rate(cfg, validate_rate(rate)[2])
                    ELSE cfg]
      [] choice = "3" ->
           [st |-> st,
            cfg |-> IF validate_rate(rate)[1]
                    THEN update_threshold(cfg, validate_rate(rate)[2])
                    ELSE cfg]
      [] choice = "4" -> [st |-> reset_device_statuses(st), cfg |-> cfg]
      [] OTHER -> [st |-> st, cfg |-> cfg]

-----------------------------------------------------------------------------
(* BioGateController.show_logs *)

Min(a, b) == IF a < b THEN a ELSE b
Max(a, b) == IF a > b THEN a ELSE b

\* Python's s[start:end]: a negative index counts from the end, and both
\* indices are cut to the list
PySlice(s, start, end) ==
    LET lo == IF start < 0 THEN Max(Len(s) + start, 0) ELSE Min(start, Len(s))
        hi == IF end < 0 THEN Max(Len(s) + end, 0) ELSE Min(end, Len(s))
    IN  SubSeq(s, lo + 1, hi)

\* A variant of total_pages_of that rounds down
total_pages_rounded_down(total_logs, per_page) == total_logs \div per_page

\* (total_logs + per_page - 1) // per_page, for per_page >= 1
total_pages_of(total_logs, per_page) == (total_logs + per_page - 1) \div per_page

\* A variant of clamp_page without the lower clamp
clamp_page_upper_only(page, total_pages) ==
    IF page > total_pages THEN total_pages ELSE page

\* "if page > total_pages: page = total_pages" then "if page < 1: page = 1"
clamp_page(page, total_pages) ==
    LET capped == IF page > total_pages THEN total_pages ELSE page
    IN  IF capped < 1 THEN 1 ELSE capped

\* What show_logs prints when there is nothing to show
NoView == [listed |-> FALSE, filtered |-> <<>>, total_pages |-> 0, page |-> 0,
           start_idx |-> 0, end_idx |-> 0, shown |-> <<>>]

\* show_logs: the filtered list, the page it settles on and the slice it prints
show_logs(log_list, page, per_page, filter_user, filter_device, filter_result) ==
    LET filtered == get_filtered_logs(log_list, filter_user, filter_device, filter_result)
        total_pages == total_pages_of(Len(filtered), per_page)
        clamped == clamp_page(page, total_pages)
        start_idx == (clamped - 1) * per_page
        end_idx == start_idx + per_page
    IN  IF filtered = <<>> THEN NoView
        ELSE [listed |-> TRUE, filtered |-> filtered, total_pages |-> total_pages,
              page |-> clamped, start_idx |-> start_idx, end_idx |-> end_idx,
              shown |-> PySlice(filtered, start_idx, end_idx)]

-----------------------------------------------------------------------------
(* BioGateController.__init__ and load_system_data *)

NoFiles == [users |-> NoFile, devices |-> NoFile, stats |-> NoFile, logs |-> NoFile]

\* load_users / load_devices / load_logs / load_statistics: the file's content,
\* or an empty value when there is no file
Load(file, empty) == IF file.exists THEN file.data ELSE empty

\* The records of a users file that have no 'original_biometric' field
LegacyUsers(file_users) ==
    {u \in DOMAIN file_users : "original_biometric" \notin DOMAIN file_users[u]}

\* The data the constructor builds over the data directory dir.  drawn[u] is
\* the template generate_biometric() returns for the legacy record u; the
\* record's other fields, bio_hash included, stay as loaded, and nothing is saved.
load_system_data(dir, drawn) ==
    LET loaded == Load(dir.users, EmptyDict)
    IN  [users |-> [u \in DOMAIN loaded |->
                      IF u \in LegacyUsers(loaded)
                      THEN DictSet(loaded[u], "original_biometric", drawn[u])
                      ELSE loaded[u]],
         devices |-> Load(dir.devices, EmptyDict),
         logs |-> Load(dir.logs, <<>>), stats |-> Load(dir.stats, EmptyDict),
         disk |-> dir]

\* The draws of generate_biometric() one load of dir can make
LoadDraws(dir) == [LegacyUsers(Load(dir.users, EmptyDict)) -> TemplateDraws]

-----------------------------------------------------------------------------
(* Inputs *)

Names == {"Alice"}

\* The modality chosen at the prompt of get_valid_biometric_type: the one that
\* the persisted sessions below did not enroll with
BioTypeInputs == {bio_type \in valid_biometric_types : bio_type # "Face"}

AAAAAA == <<"A", "A", "A", "A", "A", "A">>
ZZZZZZ == <<"Z", "Z", "Z", "Z", "Z", "Z">>
DEV1000 == DEV \o IntToStr(RandIntLo)
DEV9999 == <<"D", "E", "V", "9", "9", "9", "9">>
DEV12 == <<"D", "E", "V", "1", "2">>

\* User ids typed at the prompt: the enrolled ones, a well-formed unknown one
\* and an empty one
UserIdInputs == DOMAIN users \cup {ZZZZZZ, <<>>}

\* Device ids typed at the prompt: the existing ones, a well-formed unknown
\* one and one that is too short
DeviceIdInputs == DOMAIN devices \cup {DEV9999, DEV12}

\* Values of random.random(), in units of 1/ScoreScale: the least and the greatest
RandomDraws == {0, ScoreScale - 1}

\* Values of random.choice(attack_types) drawn in this model
AttackDraws == {"Firmware Tampering"}

\* Texts typed for a rate: numbers inside and outside [0,1], and a non-number
RateInputs ==
    {[numeric |-> TRUE, value |-> v] : v \in {0, ScoreScale, ScoreScale + 1}}
    \cup {[numeric |-> FALSE, value |-> 0]}

NoDraws == [attack |-> "", detect_draw |-> 0, auth_bio |-> <<>>, auth_draw |-> 0]

\* The draws a call of authenticate_user consumes: none when it returns before
\* the attack simulation, the simulator's two when is_attack, else the engine's two
DrawsOf(st, user_id, device_id, is_attack) ==
    IF ~(/\ validate_user_id(user_id)[1]
         /\ validate_device_id(device_id)[1]
         /\ user_id \in DOMAIN st.users
         /\ device_id \in DOMAIN st.devices)
    THEN {NoDraws}
    ELSE IF is_attack
    THEN {[NoDraws EXCEPT !.attack = t, !.detect_draw = x] :
             t \in AttackDraws, x \in RandomDraws}
    ELSE {[NoDraws EXCEPT !.auth_bio = b, !.auth_draw = x] :
             b \in TemplateDraws, x \in RandomDraws}

\* Data directories the program is started over: an empty one, and the ones two
\* earlier sessions left behind (one enrollment; one enrollment followed by an
\* attack on its device that went undetected)
EnrolledSession ==
    enroll_user(load_system_data(NoFiles, EmptyDict), "Alice", "Face", AAAAAA, DEV1000,
                Template(TemplateLen))
AttackedSession ==
    attack_succeeded(reset_under_attack(EnrolledSession, DEV1000), AAAAAA, DEV1000,
                     "Firmware Tampering")

\* BiometricUser.to_dict() of a user whose original_biometric was never set
legacy_user_dict(name, bio_type, bio_hash) ==
    [name |-> name, bio_type |-> bio_type, bio_hash |-> bio_hash, access_attempts |-> 0]

\* The directory of EnrolledSession as a version of the program that stored no
\* template would have left it: the user record has a bio_hash and no template
LegacyDir ==
    [EnrolledSession.disk EXCEPT
       !.users = File(DictSet(EmptyDict, AAAAAA,
                              legacy_user_dict("Alice", "Face",
                                               hash_biometric(Template(TemplateLen)))))]

DataDirs == {NoFiles, EnrolledSession.disk, AttackedSession.disk, LegacyDir}

-----------------------------------------------------------------------------
(* The state machine *)

State == [users |-> users, devices |-> devices, logs |-> logs, stats |-> stats,
          disk |-> disk]

NoCall ==
    [op |-> "", invoked_auth |-> FALSE, user_id |-> <<>>, device_id |-> <<>>,
     is_attack |-> FALSE, ret |-> Ret("", "", <<>>), attack |-> NoAttack,
     engine |-> NoEngine, name |-> "", bio_type |-> "", bio_data |-> <<>>,
     typed |-> <<>>, choice |-> "", rate |-> [numeric |-> FALSE, value |-> 0],
     page |-> 0, per_page |-> 0, filter_user |-> None, filter_device |-> None,
     filter_result |-> NoneResult, view |-> NoView]

\* run() is at the menu prompt and the session may run another command
AtMenu == call = NoCall /\ commands < MaxCommands

\* The data a command leaves becomes the state; the data it found becomes pre
Leave(st) ==
    /\ users' = st.users
    /\ devices' = st.devices
    /\ logs' = st.logs
    /\ stats' = st.stats
    /\ disk' = st.disk
    /\ pre' = State
    /\ commands' = commands + 1

SameSettings == UNCHANGED <<biometric_threshold, auth_success_rate, attack_detection_rate>>

\* BioGateController() over one of the data directories: default rates
Init ==
    \E dir \in DataDirs : \E drawn \in LoadDraws(dir) :
        /\ users = load_system_data(dir, drawn).users
        /\ devices = load_system_data(dir, drawn).devices
        /\ logs = load_system_data(dir, drawn).logs
        /\ stats = load_system_data(dir, drawn).stats
        /\ disk = dir
        /\ biometric_threshold = DefaultThreshold
        /\ auth_success_rate = DefaultAuthRate
        /\ attack_detection_rate = DefaultDetectionRate
        /\ call = NoCall
        /\ pre = load_system_data(dir, drawn)
        /\ commands = 0

\* menu choice 1
Enroll ==
    /\ AtMenu
    /\ \E name \in Names, bio_type \in BioTypeInputs,
          user_id \in generate_user_id(DOMAIN users),
          device_id \in generate_device_id(DOMAIN devices),
          bio_data \in TemplateDraws :
           /\ Leave(enroll_user(State, name, bio_type, user_id, device_id, bio_data))
           /\ call' = [NoCall EXCEPT !.op = "enroll", !.name = name,
                                     !.bio_type = bio_type, !.user_id = user_id,
                                     !.device_id = device_id, !.bio_data = bio_data,
                                     !.ret = Ret("SUCCESS", "enrolled", <<>>)]
    /\ SameSettings

\* menu choice 2
Authenticate ==
    /\ AtMenu
    /\ \E user_id \in UserIdInputs, device_id \in DeviceIdInputs, is_attack \in BOOLEAN :
         \E rnd \in DrawsOf(State, user_id, device_id, is_attack) :
           \E out \in {authenticate_user(State, user_id, device_id, is_attack, rnd)} :
             /\ Leave(out.st)
             /\ call' = [NoCall EXCEPT !.op = "authenticate", !.invoked_auth = TRUE,
                                       !.user_id = user_id, !.device_id = device_id,
                                       !.is_attack = is_attack, !.ret = out.ret,
                                       !.attack = out.attack, !.engine = out.engine]
    /\ SameSettings

\* menu choice 5: self.show_logs() with the defaults of its parameters
ShowLogs ==
    /\ AtMenu
    /\ Leave(State)
    /\ call' = [NoCall EXCEPT
                  !.op = "show_logs", !.page = DefaultPage, !.per_page = DefaultPerPage,
                  !.view = show_logs(logs, DefaultPage, DefaultPerPage, None, None,
                                     NoneResult)]
    /\ SameSettings

\* menu choice 8
SimulateAttack ==
    /\ AtMenu
    /\ \E typed \in DeviceIdInputs :
         \E rnd \in DrawsOf(State, ATTACKER, strip(typed), TRUE) :
           \E res \in {simulate_attack_menu(State, typed, rnd)} :
             /\ Leave(res.out.st)
             /\ call' = [NoCall EXCEPT
                           !.op = "simulate_attack_menu", !.typed = typed,
                           !.invoked_auth = res.invoked,
                           !.user_id = IF res.invoked THEN ATTACKER ELSE <<>>,
                           !.device_id = IF res.invoked THEN strip(typed) ELSE <<>>,
                           !.is_attack = res.invoked, !.ret = res.out.ret,
                           !.attack = res.out.attack, !.engine = res.out.engine]
    /\ SameSettings

\* menu choice 9
ClearAllData ==
    /\ AtMenu
    /\ \E confirm \in {"DELETE", "no"} :
           /\ Leave(clear_all_data(State, confirm))
           /\ call' = [NoCall EXCEPT !.op = "clear_all_data", !.choice = confirm]
    /\ SameSettings

\* menu choice 10
ConfigureSettings ==
    /\ AtMenu
    /\ \E choice \in {"1", "2", "3", "4", "5", "9"} :
         \E rate \in IF choice \in {"1", "2", "3"} THEN RateInputs ELSE {NoCall.rate} :
           \E res \in {configure_settings(State, Settings, choice, rate)} :
             /\ Leave(res.st)
             /\ biometric_threshold' = res.cfg.biometric_threshold
             /\ auth_success_rate' = res.cfg.auth_success_rate
             /\ attack_detection_rate' = res.cfg.attack_detection_rate
             /\ call' = [NoCall EXCEPT !.op = "configure_settings", !.choice = choice,
                                       !.rate = rate]

\* run(): the command's result is printed and the menu is shown again
ShowMenu ==
    /\ call # NoCall
    /\ call' = NoCall
    /\ pre' = State
    /\ UNCHANGED <<users, devices, logs, stats, disk, commands>>
    /\ SameSettings

Next ==
    \/ Enroll
    \/ Authenticate
    \/ ShowLogs
    \/ SimulateAttack
    \/ ClearAllData
    \/ ConfigureSettings
    \/ ShowMenu

Spec == Init /\ [][Next]_vars

-----------------------------------------------------------------------------
(* A session in which the threshold has been set to 0.0 and the success rate *)
(* to 1.0 through the settings menu                                          *)

Number(value) == [numeric |-> TRUE, value |-> value]

\* The rates configure_settings leaves after choice 3 with "0.0" and choice 1
\* with "1.0", starting from the defaults
PermissiveSettings ==
    LET defaults == [biometric_threshold |-> DefaultThreshold,
                     auth_success_rate |-> DefaultAuthRate,
                     attack_detection_rate |-> DefaultDetectionRate]
        st == load_system_data(NoFiles, EmptyDict)
        lowered == configure_settings(st, defaults, "3", Number(0)).cfg
    IN  configure_settings(st, lowered, "1", Number(ScoreScale)).cfg

\* The controller over one of the data directories, back at the menu after the
\* two settings commands (which touch no data)
PermissiveInit ==
    \E dir \in DataDirs : \E drawn \in LoadDraws(dir) :
        /\ users = load_system_data(dir, drawn).users
        /\ devices = load_system_data(dir, drawn).devices
        /\ logs = load_system_data(dir, drawn).logs
        /\ stats = load_system_data(dir, drawn).stats
        /\ disk = dir
        /\ biometric_threshold = PermissiveSettings.biometric_threshold
        /\ auth_success_rate = PermissiveSettings.auth_success_rate
        /\ attack_detection_rate = PermissiveSettings.attack_detection_rate
        /\ call = NoCall
        /\ pre = load_system_data(dir, drawn)
        /\ commands = 0

PermissiveSpec == PermissiveInit /\ [][Next]_vars

-----------------------------------------------------------------------------
(* show_logs and get_filtered_logs on their own: every log up to MaxLogLen   *)
(* entries, queried with every combination of page, per_page and filters     *)

AAAAAB == <<"A", "A", "A", "A", "A", "B">>
DEV1001 == DEV \o IntToStr(RandIntLo + 1)

\* The entry log_event appends
Entry(user_id, device_id, result, notes) ==
    log_event(load_system_data(NoFiles, EmptyDict), user_id, device_id, result, notes).logs[1]

\* Entries of two users on two devices, as authenticate_user logs them
EntryPool ==
    {Entry(AAAAAA, DEV1000, "Success",
           Notes("Authentication successful", <<>>, FormatPercent(0))),
     Entry(AAAAAA, DEV1000, "Failed", Notes("Biometric mismatch", <<>>, FormatPercent(0))),
     Entry(AAAAAB, DEV1000, "Success",
           Notes("Authentication successful", <<>>, FormatPercent(0))),
     Entry(AAAAAA, DEV1001, "Success",
           Notes("Authentication successful", <<>>, FormatPercent(0))),
     Entry(AAAAAB, DEV1001, "Failed", Notes("Biometric mismatch", <<>>, FormatPercent(0)))}

LogInputs == UNION {[1..n -> EntryPool] : n \in 0..MaxLogLen}

\* Page numbers asked for: negative, zero, and up to MaxPage
PageInputs == (0 - 1)..MaxPage

\* Filter arguments: None, the empty string, and a value that occurs
UserFilters == {None, Some(<<>>), Some(AAAAAA)}
DeviceFilters == {None, Some(<<>>), Some(DEV1000)}
ResultFilters == {NoneResult, Some(""), Some("Success")}

\* A logger holding one of the logs; nothing else is loaded
LogInit ==
    /\ logs \in LogInputs
    /\ users = EmptyDict
    /\ devices = EmptyDict
    /\ stats = EmptyDict
    /\ disk = [NoFiles EXCEPT !.logs = File(logs)]
    /\ biometric_threshold = DefaultThreshold
    /\ auth_success_rate = DefaultAuthRate
    /\ attack_detection_rate = DefaultDetectionRate
    /\ call = NoCall
    /\ pre = State
    /\ commands = 0

\* show_logs(page, per_page, filter_user, filter_device, filter_result), once
QueryLogs ==
    /\ call = NoCall
    /\ \E page \in PageInputs, per_page \in 1..MaxPerPage,
          filter_user \in UserFilters, filter_device \in DeviceFilters,
          filter_result \in ResultFilters :
         call' = [NoCall EXCEPT
                    !.op = "show_logs", !.page = page, !.per_page = per_page,
                    !.filter_user = filter_user, !.filter_device = filter_device,
                    !.filter_result = filter_result,
                    !.view = show_logs(logs, page, per_page, filter_user,
                                       filter_device, filter_result)]
    /\ pre' = State
    /\ UNCHANGED <<users, devices, logs, stats, disk, commands>>
    /\ SameSettings

LogNext == QueryLogs

LogSpec == LogInit /\ [][LogNext]_vars

-----------------------------------------------------------------------------
(* AuthenticationEngine on its own: its two mutators, called with any number *)

\* Numbers passed to a mutator, in units of 1/ScoreScale: below 0, inside
\* [0,1] with its two ends, and above 1
FloatInputs == {0 - 1, 0, 1, ScoreScale \div 2, ScoreScale - 1, ScoreScale,
                ScoreScale + 1, 2 * ScoreScale}

\* AuthenticationEngine() with its default arguments; nothing is loaded
EngineInit ==
    /\ users = EmptyDict
    /\ devices = EmptyDict
    /\ logs = <<>>
    /\ stats = EmptyDict
    /\ disk = NoFiles
    /\ biometric_threshold = DefaultThreshold
    /\ auth_success_rate = DefaultAuthRate
    /\ attack_detection_rate = DefaultDetectionRate
    /\ call = NoCall
    /\ pre = State
    /\ commands = 0

\* auth_engine.update_threshold(new_threshold)
UpdateThreshold ==
    /\ \E new_threshold \in FloatInputs :
         /\ biometric_threshold' =
              update_threshold(Settings, new_threshold).biometric_threshold
         /\ call' = [NoCall EXCEPT !.op = "update_threshold",
                                   !.rate = [numeric |-> TRUE, value |-> new_threshold]]
    /\ UNCHANGED <<users, devices, logs, stats, disk, pre, commands,
                   auth_success_rate, attack_detection_rate>>

\* auth_engine.update_auth_rate(new_rate)
UpdateAuthRate ==
    /\ \E new_rate \in FloatInputs :
         /\ auth_success_rate' = update_auth_rate(Settings, new_rate).auth_success_rate
         /\ call' = [NoCall EXCEPT !.op = "update_auth_rate",
                                   !.rate = [numeric |-> TRUE, value |-> new_rate]]
    /\ UNCHANGED <<users, devices, logs, stats, disk, pre, commands,
                   biometric_threshold, attack_detection_rate>>

EngineNext ==
    \/ UpdateThreshold
    \/ UpdateAuthRate

EngineSpec == EngineInit /\ [][EngineNext]_vars

-----------------------------------------------------------------------------
(* calculate_biometric_match on its own: a stored vector of any length up to *)
(* MaxVecLen, the empty one included, compared with any such probe           *)

\* Vectors of components 0.0 and 1.0
Vectors == UNION {[1..n -> {0, 1}] : n \in 0..MaxVecLen}

\* The generator is a class of static methods: nothing is loaded
MatchInit ==
    /\ users = EmptyDict
    /\ devices = EmptyDict
    /\ logs = <<>>
    /\ stats = EmptyDict
    /\ disk = NoFiles
    /\ biometric_threshold = DefaultThreshold
    /\ auth_success_rate = DefaultAuthRate
    /\ attack_detection_rate = DefaultDetectionRate
    /\ call = NoCall
    /\ pre = State
    /\ commands = 0

\* BiometricGenerator.calculate_biometric_match(bio1, bio2), once
CalculateMatch ==
    /\ call = NoCall
    /\ \E bio1 \in Vectors, bio2 \in Vectors :
         call' = [NoCall EXCEPT
                    !.op = "calculate_biometric_match", !.bio_data = bio1,
                    !.engine.auth_bio = bio2,
                    !.engine.match_score = calculate_biometric_match(bio1, bio2)]
    /\ pre' = State
    /\ UNCHANGED <<users, devices, logs, stats, disk, commands>>
    /\ SameSettings

MatchNext == CalculateMatch

MatchSpec == MatchInit /\ [][MatchNext]_vars

-----------------------------------------------------------------------------
(* Vocabulary of the properties: what the command that has just returned did *)

\* authenticate_user ran (menu choice 2, or menu choice 8 through simulate_attack_menu)
AuthCalled == call.invoked_auth

KnownUser == call.user_id \in DOMAIN pre.users
KnownDevice == call.device_id \in DOMAIN pre.devices
IdsWellFormed == validate_user_id(call.user_id)[1] /\ validate_device_id(call.device_id)[1]

\* The record holds a stored template
HasStoredTemplate(user) ==
    "original_biometric" \in DOMAIN user /\ user.original_biometric # <<>>

\* The log the command found is a prefix of the log it leaves
LogKept == Len(logs) >= Len(pre.logs) /\ SubSeq(logs, 1, Len(pre.logs)) = pre.logs
NewEntries == SubSeq(logs, Len(pre.logs) + 1, Len(logs))

\* The command appended exactly one entry, with this result
OneEntry(result) == LogKept /\ Len(NewEntries) = 1 /\ NewEntries[1].result = result

StatNames == {"total_enrollments", "enrollments_face", "enrollments_voice",
              "successful_authentications", "failed_authentications",
              "attacks_blocked", "attacks_succeeded"} \cup DOMAIN stats \cup DOMAIN pre.stats
Delta(stat_name) == get_stat(stats, stat_name) - get_stat(pre.stats, stat_name)

\* The command raised this counter by one and changed no other
OnlyCounted(stat_name) ==
    Delta(stat_name) = 1 /\ \A other \in StatNames \ {stat_name} : Delta(other) = 0

\* The command changed nothing: not the maps, the log, the counters or the files
NothingChanged == State = pre

\* The similarity of the user's stored template and the probe the engine generated
StoredVsProbe ==
    calculate_biometric_match(pre.users[call.user_id].original_biometric,
                              call.engine.auth_bio)

-----------------------------------------------------------------------------
(* Properties *)

\* C1: in a normal authenticate call for an enrolled user whose record holds a
\* stored template, the attempt is accepted only if the similarity of the stored
\* template and the probe is at least the threshold and the uniform draw is
\* below success_rate.
C1_AcceptedOnlyAboveThreshold ==
    (/\ AuthCalled /\ ~call.is_attack /\ KnownUser
     /\ HasStoredTemplate(pre.users[call.user_id])
     /\ call.ret.kind = "SUCCESS")
    => /\ StoredVsProbe >= biometric_threshold
       /\ call.engine.draw < auth_success_rate

\* C2: for an enrolled user with a stored template, the score the engine returns,
\* the score in the Success/Failed result and the score in the log note are the
\* similarity of the stored template and the probe (the legacy score 0.0 is
\* used only for a record with no stored template).
C2_ScoreIsSimilarity ==
    (/\ AuthCalled /\ call.engine.ran
     /\ HasStoredTemplate(pre.users[call.user_id]))
    => /\ call.engine.match_score = StoredVsProbe
       /\ call.ret.match = FormatPercent(StoredVsProbe)
       /\ logs[Len(logs)].notes.match = FormatPercent(StoredVsProbe)

\* C3: the simulate-attack command on an existing device runs the attack
\* simulation: detected leaves the device Active, appends one "Blocked" entry and
\* counts attacks_blocked; not detected leaves it Under Attack, appends one
\* "Attack" entry under SYSTEM and counts attacks_succeeded.
C3_SimulateAttackRuns ==
    (call.op = "simulate_attack_menu" /\ strip(call.typed) \in DOMAIN pre.devices)
    => /\ call.attack.ran
       /\ call.attack.detected =>
            /\ devices[strip(call.typed)].status = "Active"
            /\ OneEntry("Blocked")
            /\ Delta("attacks_blocked") = 1
       /\ ~call.attack.detected =>
            /\ devices[strip(call.typed)].status = "Under Attack"
            /\ OneEntry("Attack")
            /\ NewEntries[1].user = SYSTEM
            /\ Delta("attacks_succeeded") = 1

\* C4: an authenticate call with the attack flag, for an existing user and
\* device, whose attack is not detected sets the device Under Attack, appends
\* exactly one entry, with result "Attack" and user SYSTEM, raises
\* attacks_succeeded by one and no other counter, and runs no biometric match.
C4_UndetectedAttack ==
    (/\ AuthCalled /\ call.is_attack /\ KnownUser /\ KnownDevice
     /\ call.attack.ran /\ ~call.attack.detected)
    => /\ devices[call.device_id].status = "Under Attack"
       /\ OneEntry("Attack")
       /\ NewEntries[1].user = SYSTEM
       /\ NewEntries[1].device = call.device_id
       /\ OnlyCounted("attacks_succeeded")
       /\ ~call.engine.ran

C4_Witness ==
    /\ call.op = "authenticate" /\ call.is_attack /\ KnownUser /\ KnownDevice
    /\ call.attack.ran /\ ~call.attack.detected
    /\ call.user_id # SYSTEM
    /\ pre.devices[call.device_id].status = "Active"
    /\ devices[call.device_id].status = "Under Attack"

\* C5: an authenticate call with the attack flag, for an existing user and
\* device, whose attack is detected appends exactly one entry, with result
\* "Blocked", raises attacks_blocked by one and no other counter, and returns
\* with the device Active.
C5_DetectedAttack ==
    (/\ AuthCalled /\ call.is_attack /\ KnownUser /\ KnownDevice
     /\ call.attack.ran /\ call.attack.detected)
    => /\ OneEntry("Blocked")
       /\ NewEntries[1].user = call.user_id
       /\ NewEntries[1].device = call.device_id
       /\ OnlyCounted("attacks_blocked")
       /\ ~call.engine.ran
       /\ call.ret.kind = "BLOCKED"
       /\ devices[call.device_id].status = "Active"

C5_Witness ==
    /\ call.op = "authenticate" /\ call.is_attack /\ KnownUser /\ KnownDevice
    /\ call.attack.ran /\ call.attack.detected
    /\ Delta("attacks_blocked") = 1

\* C6, as claimed: when a simulated attack is detected the device's status at
\* the return is its status before the call, whatever that status was.
C6_DetectedAttackKeepsStatus ==
    (AuthCalled /\ call.attack.ran /\ call.attack.detected)
    => devices[call.device_id].status = pre.devices[call.device_id].status

\* C6, amended: when a simulated attack is detected the detection changes no
\* device: an Active device is still Active at the return, a device that was
\* Under Attack has been reset to Active before the simulation and is Active at
\* the return, and every other device record is as it was.
C6_DetectedAttackAfterReset ==
    (AuthCalled /\ call.attack.ran /\ call.attack.detected)
    => /\ DOMAIN devices = DOMAIN pre.devices
       /\ devices[call.device_id] =
            [pre.devices[call.device_id] EXCEPT
               !.status = IF @ = "Under Attack" THEN "Active" ELSE @]
       /\ \A d \in DOMAIN devices \ {call.device_id} : devices[d] = pre.devices[d]

C6_Witness ==
    /\ AuthCalled /\ call.attack.ran /\ call.attack.detected
    /\ pre.devices[call.device_id].status = "Under Attack"
    /\ devices[call.device_id].status = "Active"

\* C7: a normal authenticate call on an existing user and an existing device
\* that is Under Attack resets the device to Active before the biometric match
\* is evaluated: the engine is handed an Active device, and the device is Active
\* at the return whether the attempt is accepted or rejected.
C7_ResetBeforeMatch ==
    (/\ AuthCalled /\ ~call.is_attack /\ KnownUser /\ KnownDevice
     /\ pre.devices[call.device_id].status = "Under Attack")
    => /\ call.engine.ran
       /\ call.engine.device_status = "Active"
       /\ devices[call.device_id].status = "Active"

\* What C8 promises of a call
UserNotFoundResult ==
    /\ call.ret = Ret("FAILED", "User not found", <<>>)
    /\ OneEntry("Failed")
    /\ NewEntries[1].user = call.user_id
    /\ NewEntries[1].notes.text = "User not found"
    /\ OnlyCounted("failed_authentications")
    /\ devices = pre.devices
    /\ users = pre.users

\* C8, as claimed: authenticating with a well-formed user id that is not in the
\* users map returns Failed / "User not found", appends exactly one "Failed"
\* entry with that note, raises failed_authentications by one, and leaves every
\* device and the users map as they were.
C8_UnknownUser ==
    (AuthCalled /\ validate_user_id(call.user_id)[1] /\ ~KnownUser)
    => UserNotFoundResult

\* C8, amended: the same, for a call whose device id is well-formed too.
C8_UnknownUserWellFormedDevice ==
    (AuthCalled /\ IdsWellFormed /\ ~KnownUser) => UserNotFoundResult

C8_Witness ==
    /\ AuthCalled /\ IdsWellFormed /\ ~KnownUser /\ KnownDevice
    /\ pre.devices[call.device_id].status = "Under Attack"
    /\ devices[call.device_id].status = "Under Attack"
    /\ Delta("failed_authentications") = 1

\* C9: an authenticate call whose user id or device id fails format validation
\* returns the validation failure and changes nothing: users, devices, log,
\* counters (and the files) are as before, and neither the attack simulator nor
\* the engine ran.
C9_MalformedIdChangesNothing ==
    (AuthCalled /\ ~IdsWellFormed)
    => /\ NothingChanged
       /\ call.ret.kind = "FAILED"
       /\ call.ret.text = IF ~validate_user_id(call.user_id)[1]
                          THEN validate_user_id(call.user_id)[2]
                          ELSE validate_device_id(call.device_id)[2]
       /\ ~call.attack.ran /\ ~call.engine.ran

C9_Witness ==
    /\ call.op = "authenticate" /\ KnownUser
    /\ validate_user_id(call.user_id)[1] /\ ~validate_device_id(call.device_id)[1]
    /\ logs # <<>> /\ NothingChanged

\* C10: generate_device_id never returns a value that is in the set of existing
\* ids it was given, the fallback after 1000 colliding draws included.
C10_DeviceIdIsNew ==
    call.op = "enroll" => call.device_id \notin DOMAIN pre.devices

\* C11: generate_user_id never returns a value that is in the set of existing
\* ids it was given, the fallback after 1000 colliding draws included, also when
\* the set holds ids that earlier fallbacks produced.
C11_UserIdIsNew ==
    call.op = "enroll" => call.user_id \notin DOMAIN pre.users

\* C12: every enroll call returns a user id of exactly 6 characters and a device
\* id that is DEV followed by exactly 4 digits, on every path of the generators,
\* so that the pair passes the id validation of authenticate_user.
C12_EnrollIdsWellFormed ==
    call.op = "enroll"
    => /\ Len(call.user_id) = UserIdLen
       /\ validate_user_id(call.user_id)[1]
       /\ Len(call.device_id) = Len(DEV) + 4
       /\ validate_device_id(call.device_id)[1]

\* C13: after enroll(name, modality) returns ids (u, d), users[u] holds that
\* name and modality with a template attached, devices[d] is Active, the log has
\* gained exactly one entry (u, d, "Enrolled"), and total_enrollments and the
\* modality's enrollment counter have each risen by one, no other counter changed.
C13_EnrollEffects ==
    call.op = "enroll"
    => /\ call.user_id \in DOMAIN users
       /\ users[call.user_id].name = call.name
       /\ users[call.user_id].bio_type = call.bio_type
       /\ HasStoredTemplate(users[call.user_id])
       /\ users[call.user_id].original_biometric = call.bio_data
       /\ call.device_id \in DOMAIN devices
       /\ devices[call.device_id].status = "Active"
       /\ OneEntry("Enrolled")
       /\ NewEntries[1].user = call.user_id
       /\ NewEntries[1].device = call.device_id
       /\ Delta("total_enrollments") = 1
       /\ Delta(enrollment_stat(call.bio_type)) = 1
       /\ \A other \in StatNames \ {"total_enrollments", enrollment_stat(call.bio_type)} :
            Delta(other) = 0

C13_Witness ==
    /\ call.op = "enroll" /\ call.bio_type = "Voice"
    /\ pre.logs # <<>>
    /\ call.user_id \notin DOMAIN pre.users
    /\ Delta("enrollments_voice") = 1

\* C14: in every reachable state every user record's bio_hash is the fingerprint
\* of that record's original_biometric, also for records that were loaded from a
\* users file in which they had no stored template.
C14_BioHashIsFingerprint ==
    \A u \in DOMAIN users :
        users[u].bio_hash = hash_biometric(users[u].original_biometric)

\* The command that has just returned is a confirmed clear-all
ConfirmedClearAll == call.op = "clear_all_data" /\ call.choice = "DELETE"

\* C15: a user record that is stored keeps its original template and its
\* bio_hash under every later enroll, authenticate, simulate-attack, configure
\* and reset-device-status command; it changes only by being removed in a
\* confirmed clear-all.
C15_TemplateImmutable ==
    (call # NoCall /\ ~ConfirmedClearAll)
    => \A u \in DOMAIN pre.users :
          /\ u \in DOMAIN users
          /\ users[u].original_biometric = pre.users[u].original_biometric
          /\ users[u].bio_hash = pre.users[u].bio_hash

\* C16: the log is append-only: after every command other than a confirmed
\* clear-all (enroll, authenticate on each of its branches, simulate-attack, the
\* log display, configure) the log the command found is a prefix of the log it
\* leaves.
C16_LogAppendOnly ==
    (call # NoCall /\ ~ConfirmedClearAll) => LogKept

C16_Witness ==
    /\ call.op = "authenticate" /\ call.ret.kind = "FAILED"
    /\ pre.logs # <<>>
    /\ Len(logs) = Len(pre.logs) + 1
    /\ LogKept

\* Whether a filter argument counts as supplied: when it was passed at all
\* (any_given), or only when it was passed and is not the empty string
Supplied(filter, empty, any_given) ==
    IF any_given THEN filter.given ELSE FilterSet(filter, empty)

\* The entries of log_list that match every supplied filter
Matching(log_list, any_given) ==
    SelectSeq(log_list,
              LAMBDA log :
                /\ Supplied(call.filter_user, <<>>, any_given)
                   => log.user = call.filter_user.value
                /\ Supplied(call.filter_device, <<>>, any_given)
                   => log.device = call.filter_device.value
                /\ Supplied(call.filter_result, "", any_given)
                   => log.result = call.filter_result.value)

InSeq(x, s) == \E i \in 1..Len(s) : s[i] = x

\* What C17 promises of a query, for one reading of "supplied"
QueryResult(any_given) ==
    /\ call.view.filtered = Matching(logs, any_given)
    /\ (/\ ~Supplied(call.filter_user, <<>>, any_given)
        /\ ~Supplied(call.filter_device, <<>>, any_given)
        /\ ~Supplied(call.filter_result, "", any_given))
       => call.view.filtered = logs
    /\ (/\ Supplied(call.filter_user, <<>>, any_given)
        /\ Supplied(call.filter_device, <<>>, any_given)
        /\ Supplied(call.filter_result, "", any_given))
       => call.view.filtered =
            SelectSeq(logs,
                      LAMBDA log :
                        /\ InSeq(log, get_filtered_logs(logs, call.filter_user, None,
                                                        NoneResult))
                        /\ InSeq(log, get_filtered_logs(logs, None, call.filter_device,
                                                        NoneResult))
                        /\ InSeq(log, get_filtered_logs(logs, None, None,
                                                        call.filter_result)))
    /\ logs = pre.logs

\* C17, as claimed: the log query returns exactly the entries that match all
\* supplied filters, in insertion order; with no filter it returns every
\* entry, with all three the intersection of the three single-filter results;
\* the log is unchanged.
C17_QueryMatchesSupplied ==
    call.op = "show_logs" => QueryResult(TRUE)

\* C17, amended: the same, a filter counting as supplied when it is neither
\* None nor the empty string (an empty string is treated as no filter).
C17_QueryMatchesNonEmpty ==
    call.op = "show_logs" => QueryResult(FALSE)

C17_Witness ==
    /\ call.op = "show_logs"
    /\ FilterSet(call.filter_user, <<>>) /\ FilterSet(call.filter_device, <<>>)
    /\ FilterSet(call.filter_result, "")
    /\ call.view.filtered # <<>>
    /\ Len(call.view.filtered) < Len(logs)
    /\ \E i \in 1..Len(logs) : logs[i].user = call.filter_user.value
                               /\ logs[i].device # call.filter_device.value

\* The least m with m * per_page >= total_logs
Ceiling(total_logs, per_page) ==
    CHOOSE m \in 0..total_logs : m * per_page >= total_logs /\ (m - 1) * per_page < total_logs

\* C18: for every page number asked for (0, negative and beyond the end
\* included) and every per_page >= 1, a non-empty filtered list is shown at a
\* page inside [1, total_pages], total_pages being ceil(entries / per_page), and
\* the slice shown lies inside the list.
C18_PageInRange ==
    (call.op = "show_logs" /\ call.per_page >= 1 /\ call.view.listed)
    => /\ call.view.total_pages = Ceiling(Len(call.view.filtered), call.per_page)
       /\ 1 <= call.view.page /\ call.view.page <= call.view.total_pages
       /\ (1 <= call.page /\ call.page <= call.view.total_pages)
          => call.view.page = call.page
       /\ 0 <= call.view.start_idx /\ call.view.start_idx < Len(call.view.filtered)
       /\ call.view.shown # <<>>
       /\ Len(call.view.shown) <= call.per_page
       /\ \A i \in 1..Len(call.view.shown) :
            call.view.shown[i] = call.view.filtered[call.view.start_idx + i]

C18_Witness ==
    /\ call.op = "show_logs" /\ call.view.listed
    /\ call.page < 1
    /\ call.view.total_pages >= 2
    /\ call.view.page = 1

\* C19: every counter is a non-negative integer in every reachable state, a
\* counter that is absent reads as zero, no command other than a confirmed
\* clear-all lowers a counter, and increment_stat raises the named counter by
\* exactly one and no other.
C19_CountersMonotone ==
    LET names == StatNames
    IN  /\ \A stat_name \in DOMAIN stats : stats[stat_name] \in Nat
        /\ \A stat_name \in names \ DOMAIN stats : get_stat(stats, stat_name) = 0
        /\ (call # NoCall /\ ~ConfirmedClearAll)
           => \A stat_name \in names : Delta(stat_name) >= 0
        /\ call # NoCall
           => \A stat_name \in names :
                LET after == increment_stat([stats |-> stats], stat_name).stats
                IN  /\ get_stat(after, stat_name) = get_stat(stats, stat_name) + 1
                    /\ \A other \in names \ {stat_name} :
                         get_stat(after, other) = get_stat(stats, other)

C19_Witness ==
    /\ call.op = "authenticate"
    /\ get_stat(pre.stats, "failed_authentications") >= 1
    /\ Delta("failed_authentications") = 1
    /\ "attacks_blocked" \notin DOMAIN stats

\* C20: the engine's threshold and success-rate mutators validate their input:
\* a value outside [0,1] is rejected and the stored setting keeps its previous
\* value, so threshold and success_rate are in [0,1] in every state the
\* mutators can reach.
C20_SettingsInRange ==
    /\ 0 <= biometric_threshold /\ biometric_threshold <= ScoreScale
    /\ 0 <= auth_success_rate /\ auth_success_rate <= ScoreScale

\* What a restart would load: the content of the four files, a missing file
\* reading as empty
Persisted ==
    [users |-> Load(disk.users, EmptyDict), devices |-> Load(disk.devices, EmptyDict),
     logs |-> Load(disk.logs, <<>>), stats |-> Load(disk.stats, EmptyDict)]

InMemory == [users |-> users, devices |-> devices, logs |-> logs, stats |-> stats]

\* The command that has just returned is one of the core operations: enroll,
\* authenticate on any of its branches (simulate-attack included), clear-all,
\* reset of the device statuses
CoreOperation ==
    \/ call.op \in {"enroll", "authenticate", "simulate_attack_menu", "clear_all_data"}
    \/ call.op = "configure_settings" /\ call.choice = "4"

\* C21: when enroll, authenticate (on every terminal branch), clear-all or reset
\* of the device statuses returns, the persisted users, devices, log and
\* statistics equal the ones in memory.
C21_PersistedIsInMemory ==
    CoreOperation => Persisted = InMemory

\* C22: similarity(v, v) is exactly 1.0 for every vector v of any length, the
\* empty vector included, and raises no error.
C22_SelfSimilarityIsOne ==
    (call.op = "calculate_biometric_match" /\ call.bio_data = call.engine.auth_bio)
    => call.engine.match_score = ScoreScale

\* C23: with threshold 0.0 and success rate 1.0 every normal authenticate call
\* for an existing user and an existing device is accepted, whatever the probe
\* and the uniform draw: it returns success, logs one "Success" entry and raises
\* successful_authentications by one.
C23_AlwaysAccepted ==
    (/\ AuthCalled /\ ~call.is_attack /\ KnownUser /\ KnownDevice
     /\ biometric_threshold = 0 /\ auth_success_rate = ScoreScale)
    => /\ call.ret.kind = "SUCCESS"
       /\ OneEntry("Success")
       /\ NewEntries[1].user = call.user_id
       /\ Delta("successful_authentications") = 1

\* C24: the status of an existing device changes only inside an authenticate
\* call: after every other command (enroll, the settings menu with its reset of
\* the device statuses, the log display, clear-all) every device that existed
\* before and still exists has the status it had.
C24_StatusChangesOnlyInAuthenticate ==
    (call # NoCall /\ ~AuthCalled)
    => \A d \in DOMAIN pre.devices \cap DOMAIN devices :
          devices[d].status = pre.devices[d].status

\* C25: clear-all takes effect only with the confirmation token.  Without it
\* users, devices, log and statistics (and the files) are unchanged.  With it all
\* four are empty afterwards, in memory and in the files, and a second confirmed
\* clear-all leaves that state as it is.
C25_ClearAllNeedsToken ==
    call.op = "clear_all_data"
    => IF call.choice = "DELETE"
       THEN /\ users = EmptyDict /\ devices = EmptyDict
            /\ logs = <<>> /\ stats = EmptyDict
            /\ Persisted.users = EmptyDict /\ Persisted.devices = EmptyDict
            /\ Persisted.logs = <<>> /\ Persisted.stats = EmptyDict
            /\ clear_all_data(State, "DELETE") = State
       ELSE NothingChanged

C25_Witness ==
    /\ ConfirmedClearAll
    /\ DOMAIN pre.users # {} /\ DOMAIN pre.devices # {}
    /\ pre.logs # <<>> /\ DOMAIN pre.stats # {}
    /\ pre.disk.logs.exists /\ pre.disk.stats.exists
    /\ DOMAIN users = {}

\* C26, as claimed: an authenticate call whose user id or device id fails
\* format validation raises failed_authentications by one.
C26_MalformedIdCounted ==
    (AuthCalled /\ ~IdsWellFormed) => Delta("failed_authentications") = 1

\* C26, amended: an authenticate call whose user id or device id fails format
\* validation does not count as a failed authentication: failed_authentications
\* and every other counter keep their values and no log entry is written.
C26_MalformedIdNotCounted ==
    (AuthCalled /\ ~IdsWellFormed)
    => /\ Delta("failed_authentications") = 0
       /\ \A stat_name \in StatNames : Delta(stat_name) = 0
       /\ NewEntries = <<>>

C26_Witness ==
    /\ call.op = "authenticate"
    /\ ~validate_user_id(call.user_id)[1]
    /\ get_stat(pre.stats, "failed_authentications") >= 1
    /\ get_stat(stats, "failed_authentications") = get_stat(pre.stats, "failed_authentications")

\* The number of log entries with this result
CountResult(result) == Cardinality({i \in DOMAIN logs : logs[i].result = result})

\* The counters that the command changed
Counted == {stat_name \in StatNames : Delta(stat_name) # 0}

\* C27: from empty data (a fresh start, or a confirmed clear-all) and through
\* every sequence of commands, the counters agree with the log: the entries
\* with result Enrolled, Success, Failed, Blocked and Attack are as many as
\* total_enrollments, successful_authentications, failed_authentications,
\* attacks_blocked and attacks_succeeded say, total_enrollments is the sum of the
\* per-modality counters, and an authenticate call that passes id validation
\* appends exactly one entry and raises exactly one counter, by one.
C27_StatsAgreeWithLog ==
    /\ CountResult("Enrolled") = get_stat(stats, "total_enrollments")
    /\ CountResult("Success") = get_stat(stats, "successful_authentications")
    /\ CountResult("Failed") = get_stat(stats, "failed_authentications")
    /\ CountResult("Blocked") = get_stat(stats, "attacks_blocked")
    /\ CountResult("Attack") = get_stat(stats, "attacks_succeeded")
    /\ get_stat(stats, "total_enrollments")
         = get_stat(stats, "enrollments_face") + get_stat(stats, "enrollments_voice")
    /\ (AuthCalled /\ IdsWellFormed)
       => /\ LogKept /\ Len(NewEntries) = 1
          /\ Cardinality(Counted) = 1
          /\ \A stat_name \in Counted : Delta(stat_name) = 1

C27_Witness ==
    /\ call.op = "authenticate" /\ IdsWellFormed /\ ~KnownDevice
    /\ Len(logs) = 2
    /\ logs[1].result = "Enrolled" /\ logs[1].notes.name = <<"Voice">>
    /\ logs[2].result = "Failed"
    /\ get_stat(stats, "enrollments_voice") = 1
    /\ "enrollments_face" \notin DOMAIN stats

\* What show_logs does for page p with the other arguments of the query that
\* has just returned
PageView(p) ==
    show_logs(logs, p, call.per_page, call.filter_user, call.filter_device,
              call.filter_result)

\* The slices shown for pages p..last, one after the other
RECURSIVE ConcatPages(_, _)
ConcatPages(p, last) ==
    IF p > last THEN <<>> ELSE PageView(p).shown \o ConcatPages(p + 1, last)

\* C28: for every non-empty filtered log and every per_page >= 1, the slices
\* shown for pages 1..total_pages, concatenated in page order, are the filtered
\* sequence: each entry is on exactly one page, in the original order; every
\* page but the last holds exactly per_page entries and no page is empty.
C28_PagesPartitionLog ==
    (call.op = "show_logs" /\ call.per_page >= 1 /\ call.view.listed)
    => /\ ConcatPages(1, call.view.total_pages) = call.view.filtered
       /\ \A p \in 1..call.view.total_pages :
            /\ PageView(p).page = p
            /\ PageView(p).shown # <<>>
            /\ p < call.view.total_pages => Len(PageView(p).shown) = call.per_page

C28_Witness ==
    /\ call.op = "show_logs" /\ call.view.listed
    /\ FilterSet(call.filter_user, <<>>)
    /\ call.view.total_pages >= 2
    /\ Len(call.view.filtered) % call.per_page # 0
    /\ call.view.page = call.view.total_pages
    /\ Len(call.view.shown) < call.per_page

\* C29: each enroll call adds exactly one new key to the users map and exactly
\* one new key to the devices map, and leaves every user record and device
\* record that existed before (a device's Under Attack status included) as it
\* was: it never overwrites a record.
C29_EnrollAddsOneOfEach ==
    call.op = "enroll"
    => /\ DOMAIN users = DOMAIN pre.users \cup {call.user_id}
       /\ Cardinality(DOMAIN users) = Cardinality(DOMAIN pre.users) + 1
       /\ DOMAIN devices = DOMAIN pre.devices \cup {call.device_id}
       /\ Cardinality(DOMAIN devices) = Cardinality(DOMAIN pre.devices) + 1
       /\ \A u \in DOMAIN pre.users : users[u] = pre.users[u]
       /\ \A d \in DOMAIN pre.devices : devices[d] = pre.devices[d]

====
